---- MODULE Spec2Model ----
(***************************************************************************)
(* oktad: one invocation of main() (src/main.go) as a state machine.       *)
(* Every external collaborator (prompts, Okta, STS, keychain, the profile  *)
(* and credential stores) answers nondeterministically from a small set.   *)
(* pc is the position of the single thread of control.                     *)
(***************************************************************************)
EXTENDS Integers, Sequences, FiniteSets, TLC

----------------------------------------------------------------------------
(* Bounds of the model *)

\* longest factor list a login response carries
MaxFactors == 2

----------------------------------------------------------------------------
(* Values *)

NoErr == "nil"
None == "none"

\* the profile name main falls back to (declared outside main.go)
BASE_PROFILE_CREDS == "BASE_PROFILE_CREDS"

\* the command line: target name followed by the command to launch
Target == "dev"
Command == "cmd"
OverrideNames == {"", "ovr"}
ProfileNames == {Target, BASE_PROFILE_CREDS, "ovr"}

\* the instant of the run and the expiries STS hands out
Now == 1
Expiries == {Now + 1, Now + 2}

BaseKeys == {"baseKey1", "baseKey2"}
DestKeys == {"destKey"}
CachedKey == "cachedKey"

SessionTokens == {"sessionTok"}
TokenAssertion == "assertionFromToken"
CookieAssertion == "assertionFromCookie"
StoredCookie == "cookieBlob"

\* the error awsProfile lookup reports when the profile is absent
awsProfileNotFound == "aws profile not found"
wrongMfaError == "wrong mfa factor"
ErrPromptAborted == "prompt aborted"

\* factors the identity provider may list
Factors ==
  { [Id |-> "idPush", FactorType |-> "push", Provider |-> "OKTA"],
    [Id |-> "idTotp", FactorType |-> "token:software:totp", Provider |-> "GOOGLE"],
    [Id |-> "idSms", FactorType |-> "sms", Provider |-> "OKTA"],
    [Id |-> "", FactorType |-> "token:software:totp", Provider |-> "OKTA"] }

FactorLists == UNION { [1..n -> Factors] : n \in 0..MaxFactors }

\* lines the user may type at the factor prompt, as character sequences
Answers ==
  { << >>, <<"x">>, <<"1", "x">>, <<"-", "1">> } \cup
  { <<d>> : d \in {"0", "1", "2", "3", "4", "5"} }

Ops ==
  { "loadCreds", "GetKeychain", "GetPassword", "readUserPass", "login",
    "selectPrompt", "getSaml",
    "getSamlSession", "assumeFirstRole", "assumeDestinationRole",
    "storeCredsAws", "storeCreds", "prepAndLaunch" }

----------------------------------------------------------------------------
(* State *)

VARIABLES
  pc,             \* position of the thread of control
  opts,           \* parsed flags: ForceNewCredentials, ProfileName
  args,           \* positional arguments
  awsProfile,     \* main: awsProfile
  acfg,           \* main: the profile read by readAwsProfile
  skipSecondRole, \* main: skipSecondRole
  err,            \* main: err
  password,       \* main: the stored session cookie blob
  sessionToken,   \* main: sessionToken
  saml,           \* main: saml (None for a nil pointer, else its raw form)
  mainCreds, mExp, finalCreds, fExp,
  caller,         \* which call of getSessionFromLogin is running
  ores,           \* getSessionFromLogin: the login response
  factor,         \* getSessionFromLogin: the selected factor
  mfaIdxAnswer,   \* selectTokenFactor: the line read at the prompt
  tries,          \* startPushMfa / startTotpMfa: tries
  mfaErr,         \* startPushMfa / startTotpMfa: err
  credStore,      \* internal credential cache, by profile name
  awsStore,       \* cloud-native profile store, by profile name
  stdout,         \* messages shown to the user so far
  calls,          \* number of calls made to each collaborator
  cancelled,      \* a prompt of this run was interrupted
  mfa,            \* the startMfa call running or just returned (see NoMfa)
  lookup,         \* what readAwsProfile answered
  firstRoleArg,   \* the assertion assumeFirstRole was called with
  launched,       \* what prepAndLaunch was called with
  run,            \* which invocation of main this is: 1, or 2 after NextRun
  prev            \* what the run before this one looked up and wrote

mainVars == <<opts, args, awsProfile, acfg, skipSecondRole, password, saml,
              mainCreds, mExp, finalCreds, fExp>>
loginVars == <<caller, ores, factor, mfaIdxAnswer, tries, mfaErr>>
storeVars == <<credStore, awsStore>>
histVars == <<calls, cancelled, mfa, lookup, firstRoleArg, launched>>
runVars == <<run, prev>>
vars == <<pc, err, sessionToken, stdout, mainVars, loginVars, storeVars, histVars,
          runVars>>

Inc(op) == [calls EXCEPT ![op] = @ + 1]
Emit(out, msg) == out \cup {msg}

\* an absent store record, login response, factor and launch
NoRecord == [creds |-> None, exp |-> 0]
NoResponse == [Status |-> None, Factors |-> << >>]
NoFactor == [Id |-> "", FactorType |-> None, Provider |-> ""]
NoLaunch == [args |-> << >>, creds |-> None]
NoPrev == [name |-> "", lookup |-> None]

\* mfa when no startMfa call is pending: the factor kind, whether it has
\* returned, the doMfa calls made and how many failed, the sleeps, the code
\* prompts, the token of the last doMfa call, and the token and error
\* returned. main forgets it when it exchanges the token (getSaml).
NoMfa == [kind |-> None, done |-> FALSE, calls |-> 0, fails |-> 0,
          sleeps |-> 0, prompts |-> 0, tok |-> "", ret |-> "", err |-> NoErr]

\* cache contents a run may start from: empty, or a live record under one of
\* the two names a run looks up and a record expiring now under the other
InitialCaches ==
  { [n \in ProfileNames |-> NoRecord] } \cup
  { [n \in ProfileNames |->
       IF n = m THEN [creds |-> CachedKey, exp |-> Now + 1]
       ELSE IF n \in {Target, BASE_PROFILE_CREDS}
         THEN [creds |-> CachedKey, exp |-> Now]
         ELSE NoRecord] :
    m \in {Target, BASE_PROFILE_CREDS} }

Init ==
  /\ pc = "start"
  /\ opts \in [ForceNewCredentials : BOOLEAN, ProfileName : OverrideNames]
  /\ args = << >>
  /\ awsProfile = ""
  /\ acfg = None
  /\ skipSecondRole = FALSE
  /\ err = NoErr
  /\ password = ""
  /\ sessionToken = ""
  /\ saml = None
  /\ mainCreds = None /\ mExp = 0 /\ finalCreds = None /\ fExp = 0
  /\ caller = None
  /\ ores = NoResponse
  /\ factor = NoFactor
  /\ mfaIdxAnswer = << >>
  /\ tries = 0
  /\ mfaErr = NoErr
  /\ credStore \in InitialCaches
  /\ awsStore = [n \in ProfileNames |-> None]
  /\ stdout = {}
  /\ calls = [o \in Ops |-> 0]
  /\ cancelled = FALSE
  /\ mfa = NoMfa
  /\ lookup = None
  /\ firstRoleArg = "uncalled"
  /\ launched = NoLaunch
  /\ run = 1
  /\ prev = NoPrev

----------------------------------------------------------------------------
(* main, lines 18-91 *)

\* flags.Parse, --version, parseConfig and the empty command line
Start ==
  /\ pc = "start"
  /\ \E outcome \in {"flagsErr", "version", "configErr", "noArgs", "ok"} :
       \/ /\ outcome = "flagsErr"
          /\ pc' = "returned" /\ err' = "flags" /\ UNCHANGED <<stdout, args>>
       \/ /\ outcome = "version"
          /\ pc' = "returned" /\ stdout' = Emit(stdout, "oktad v0.7.0")
          /\ UNCHANGED <<err, args>>
       \/ /\ outcome = "configErr"
          /\ pc' = "returned" /\ err' = "config"
          /\ stdout' = Emit(stdout, "Error reading config file!")
          /\ UNCHANGED args
       \/ /\ outcome = "noArgs"
          /\ pc' = "returned"
          /\ stdout' = Emit(stdout, "Hey, that command won't actually do anything.")
          /\ UNCHANGED <<err, args>>
       \/ /\ outcome = "ok"
          /\ pc' = "readAwsProfile" /\ args' = <<Target, Command>>
          /\ UNCHANGED <<err, stdout>>
  /\ UNCHANGED <<opts, awsProfile, acfg, skipSecondRole, password, saml,
                 mainCreds, mExp, finalCreds, fExp, sessionToken>>
  /\ UNCHANGED <<loginVars, storeVars, histVars>>
  /\ UNCHANGED runVars

\* no retargeting: the requested name is kept
RetargetName_keep(requested) == requested

\* the profile name main continues with when the lookup reports not-found
RetargetName(requested) == BASE_PROFILE_CREDS

\* awsProfile := args[0]; readAwsProfile; the not-found fallback
ReadAwsProfile ==
  /\ pc = "readAwsProfile"
  /\ \E outcome \in {"found", awsProfileNotFound, "unreadable"} :
       /\ lookup' = outcome
       /\ err' = IF outcome = "found" THEN NoErr ELSE outcome
       /\ acfg' = IF outcome = "found" THEN "profile " \o args[1] ELSE None
       /\ IF outcome = awsProfileNotFound
            THEN /\ skipSecondRole' = TRUE
                 /\ stdout' = Emit(stdout, "We couldn't find an AWS profile named")
                 /\ awsProfile' = RetargetName(args[1])
                 /\ args' = <<BASE_PROFILE_CREDS>> \o args
            ELSE /\ skipSecondRole' = FALSE
                 /\ awsProfile' = args[1]
                 /\ UNCHANGED <<stdout, args>>
  /\ pc' = "loadCreds"
  /\ UNCHANGED <<opts, password, saml, mainCreds, mExp, finalCreds, fExp,
                 sessionToken>>
  /\ UNCHANGED <<loginVars, storeVars>>
  /\ UNCHANGED <<calls, cancelled, mfa, firstRoleArg, launched>>
  /\ UNCHANGED runVars

\* loadCreds: a record under the name whose expiry is strictly after now
loadCreds(name) ==
  IF credStore[name] # NoRecord /\ credStore[name].exp > Now
    THEN [creds |-> credStore[name].creds, err |-> NoErr]
    ELSE [creds |-> None, err |-> "no cached credentials"]

\* the cache consulted whatever the flag says
ConsultCache_always(force) == TRUE

\* whether main consults the credential cache
ConsultCache(force) == ~force

\* the cache check of lines 78-91; a hit launches and returns
LoadCreds ==
  /\ pc = "loadCreds"
  /\ IF ConsultCache(opts.ForceNewCredentials)
       THEN LET r == loadCreds(awsProfile) IN
            IF r.err = NoErr
              THEN /\ \E lerr \in {NoErr, "launch failed"} :
                        /\ err' = lerr
                        /\ stdout' = IF lerr = NoErr THEN stdout
                                     ELSE Emit(stdout, "Error launching program: ")
                   /\ launched' = [args |-> args, creds |-> r.creds]
                   /\ calls' = [calls EXCEPT !["loadCreds"] = @ + 1,
                                             !["prepAndLaunch"] = @ + 1]
                   /\ pc' = "returned"
              ELSE /\ calls' = Inc("loadCreds")
                   /\ pc' = "keychain"
                   /\ UNCHANGED <<err, stdout, launched>>
       ELSE /\ pc' = "keychain"
            /\ UNCHANGED <<err, stdout, launched, calls>>
  /\ UNCHANGED <<mainVars, sessionToken, loginVars, storeVars>>
  /\ UNCHANGED <<cancelled, mfa, lookup, firstRoleArg>>
  /\ UNCHANGED runVars

----------------------------------------------------------------------------
(* main, lines 93-103 *)

\* keytar.GetKeychain
GetKeychain ==
  /\ pc = "keychain"
  /\ \E kerr \in {NoErr, "keychain"} :
       /\ err' = kerr
       /\ IF kerr # NoErr
            THEN /\ stdout' = Emit(stdout, "Failed to get keychain access")
                 /\ pc' = "returned"
            ELSE /\ pc' = "getPassword"
                 /\ UNCHANGED stdout
  /\ calls' = Inc("GetKeychain")
  /\ UNCHANGED <<mainVars, sessionToken, loginVars, storeVars>>
  /\ UNCHANGED <<cancelled, mfa, lookup, firstRoleArg, launched>>
  /\ UNCHANGED runVars

\* what keystore.GetPassword may answer for the session cookie
GetPasswordResults ==
  { [password |-> "", err |-> "secret not found"],
    [password |-> "", err |-> NoErr],
    [password |-> StoredCookie, err |-> NoErr] }

\* the test of lines 117 and 132, negated: the assertion can be used
Usable(s) == ~(s = None \/ s = "")

\* a login whatever the secret store holds
NeedsLogin_always(e, p) == TRUE

\* the test of line 103: no stored session cookie, so log in first
NeedsLogin(e, p) == e # NoErr \/ p = ""

\* keystore.GetPassword and the choice between login and the stored cookie
GetPassword ==
  /\ pc = "getPassword"
  /\ \E r \in GetPasswordResults :
       /\ password' = r.password
       /\ err' = r.err
       /\ IF NeedsLogin(r.err, r.password)
            THEN /\ pc' = "readUserPass"
                 /\ caller' = "first"
            ELSE /\ pc' = "getSamlSession"
                 /\ UNCHANGED caller
  /\ calls' = Inc("GetPassword")
  /\ UNCHANGED <<opts, args, awsProfile, acfg, skipSecondRole, saml,
                 mainCreds, mExp, finalCreds, fExp>>
  /\ UNCHANGED <<sessionToken, stdout, ores, factor, mfaIdxAnswer, tries, mfaErr>>
  /\ UNCHANGED <<storeVars, cancelled, mfa, lookup, firstRoleArg, launched>>
  /\ UNCHANGED runVars

----------------------------------------------------------------------------
(* getSessionFromLogin, lines 192-234, and its two call sites in main *)

\* getSessionFromLogin returns (tok, e) to main: lines 104-107 and 134-139
GslReturn(tok, e, out) ==
  /\ sessionToken' = tok
  /\ err' = e
  /\ IF e # NoErr
       THEN /\ pc' = "returned"
            /\ stdout' = IF caller = "fallback"
                           THEN Emit(out, "Fatal error getting login session")
                           ELSE out
       ELSE /\ pc' = "getSaml"
            /\ stdout' = out
  /\ ores' = NoResponse
  /\ factor' = NoFactor
  /\ mfaIdxAnswer' = << >>
  /\ tries' = 0
  /\ mfaErr' = NoErr
  /\ UNCHANGED caller

\* what readUserPass may return: an interrupt at either prompt, or two lines
UserPassResults ==
  { [user |-> "", pass |-> "", err |-> ErrPromptAborted],
    [user |-> "alice", pass |-> "", err |-> ErrPromptAborted] } \cup
  { [user |-> u, pass |-> p, err |-> NoErr] :
    u \in {"", "alice"}, p \in {"", "secret"} }

\* readUserPass and the checks of lines 196-204
ReadUserPass ==
  /\ pc = "readUserPass"
  /\ \E r \in UserPassResults :
       /\ cancelled' = (cancelled \/ r.err # NoErr)
       /\ IF r.err # NoErr
            THEN GslReturn("", "control-c", stdout)
            ELSE IF r.user = "" \/ r.pass = ""
              THEN GslReturn("", "Must supply a username and password", stdout)
              ELSE /\ pc' = "login"
                   /\ UNCHANGED <<err, sessionToken, stdout, loginVars>>
  /\ calls' = Inc("readUserPass")
  /\ UNCHANGED <<mainVars, storeVars, mfa, lookup, firstRoleArg, launched>>
  /\ UNCHANGED runVars

\* what login may return: an error, or a response with a status and factors
LoginResults ==
  { [res |-> NoResponse, err |-> "login failed"],
    [res |-> [Status |-> "SUCCESS", Factors |-> << >>], err |-> NoErr] } \cup
  { [res |-> [Status |-> "MFA_REQUIRED", Factors |-> fs], err |-> NoErr] :
    fs \in FactorLists }

\* login and the status check, lines 206-215
Login ==
  /\ pc = "login"
  /\ \E r \in LoginResults :
       IF r.err # NoErr
         THEN GslReturn("", r.err,
                Emit(stdout, "Error authenticating with Okta! Maybe your username or password are wrong."))
         ELSE IF r.res.Status # "MFA_REQUIRED"
           THEN GslReturn("", "MFA required to use this tool", stdout)
           ELSE /\ ores' = r.res
                /\ pc' = "selectTokenFactor"
                /\ UNCHANGED <<err, sessionToken, stdout, caller, factor,
                               mfaIdxAnswer, tries, mfaErr>>
  /\ calls' = Inc("login")
  /\ UNCHANGED <<mainVars, storeVars, cancelled, mfa, lookup, firstRoleArg, launched>>
  /\ UNCHANGED runVars

----------------------------------------------------------------------------
(* selectTokenFactor, lines 328-374 *)

\* selectTokenFactor returns (f, e) to getSessionFromLogin: lines 217-223
SelectReturn(f, e) ==
  IF e # NoErr
    THEN GslReturn("", e, Emit(stdout, "Error processing okta response!"))
    ELSE /\ factor' = f
         /\ pc' = "startMfa"
         /\ mfaIdxAnswer' = << >>
         /\ UNCHANGED <<err, sessionToken, stdout, caller, ores, tries, mfaErr>>

\* what the factor prompt may return: a line, or "" with an interrupt error
SelectPromptResults ==
  { [line |-> a, err |-> NoErr] : a \in Answers } \cup
  { [line |-> << >>, err |-> ErrPromptAborted] }

\* the selection with the single-factor shortcut missing
SelectFactor_alwaysPrompt ==
  /\ pc = "selectTokenFactor"
  /\ LET factors == ores.Factors IN
     IF Len(factors) = 0
       THEN /\ SelectReturn(NoFactor, "MFA factors not present in response")
            /\ UNCHANGED <<calls, cancelled>>
       ELSE IF FALSE
         THEN /\ SelectReturn(factors[1], NoErr)
              /\ UNCHANGED <<calls, cancelled>>
         ELSE \E r \in SelectPromptResults :
                /\ mfaIdxAnswer' = r.line
                /\ cancelled' = (cancelled \/ r.err # NoErr)
                /\ calls' = Inc("selectPrompt")
                /\ pc' = "selectIndex"
                /\ UNCHANGED <<err, sessionToken, stdout, caller, ores, factor,
                               tries, mfaErr>>
  /\ UNCHANGED <<mainVars, storeVars, mfa, lookup, firstRoleArg, launched>>
  /\ UNCHANGED runVars

\* lines 331-364: no factor, a single factor, or the menu and its prompt
SelectFactor ==
  /\ pc = "selectTokenFactor"
  /\ LET factors == ores.Factors IN
     IF Len(factors) = 0
       THEN /\ SelectReturn(NoFactor, "MFA factors not present in response")
            /\ UNCHANGED <<calls, cancelled>>
       ELSE IF Len(factors) = 1
         THEN /\ SelectReturn(factors[1], NoErr)
              /\ UNCHANGED <<calls, cancelled>>
         ELSE \E r \in SelectPromptResults :
                /\ mfaIdxAnswer' = r.line
                /\ cancelled' = (cancelled \/ r.err # NoErr)
                /\ calls' = Inc("selectPrompt")
                /\ pc' = "selectIndex"
                /\ UNCHANGED <<err, sessionToken, stdout, caller, ores, factor,
                               tries, mfaErr>>
  /\ UNCHANGED <<mainVars, storeVars, mfa, lookup, firstRoleArg, launched>>
  /\ UNCHANGED runVars

DigitChars == {"0", "1", "2", "3", "4", "5", "6", "7", "8", "9"}

DigitValue(c) ==
  CASE c = "0" -> 0 [] c = "1" -> 1 [] c = "2" -> 2 [] c = "3" -> 3
    [] c = "4" -> 4 [] c = "5" -> 5 [] c = "6" -> 6 [] c = "7" -> 7
    [] c = "8" -> 8 [] c = "9" -> 9

RECURSIVE DecimalValue(_, _)
DecimalValue(s, acc) ==
  IF s = << >> THEN acc
  ELSE DecimalValue(Tail(s), acc * 10 + DigitValue(Head(s)))

\* strconv.Atoi with its error dropped: 0 for anything that is not a number
Atoi(s) ==
  LET signed == s # << >> /\ Head(s) \in {"-", "+"}
      digits == IF signed THEN Tail(s) ELSE s
      wellFormed == digits # << >> /\ \A i \in 1..Len(digits) : digits[i] \in DigitChars
  IN  IF ~wellFormed THEN 0
      ELSE IF signed /\ Head(s) = "-" THEN 0 - DecimalValue(digits, 0)
      ELSE DecimalValue(digits, 0)

\* the slice index expression factors[mfaIdx] is within the slice
InRange(idx, n) == idx >= 0 /\ idx < n

\* lines 365-373: parse the answer, index the factors, reject an empty id
SelectIndex ==
  /\ pc = "selectIndex"
  /\ LET factors == ores.Factors
         mfaIdx == Atoi(mfaIdxAnswer)
     IN  IF ~InRange(mfaIdx, Len(factors))
           THEN \* index out of range: the runtime panics, the process dies
                /\ pc' = "panic"
                /\ UNCHANGED <<err, sessionToken, stdout, loginVars>>
           ELSE LET mfaFactor == factors[mfaIdx + 1] IN
                IF mfaFactor.Id = ""
                  THEN SelectReturn(NoFactor, wrongMfaError)
                  ELSE SelectReturn(mfaFactor, NoErr)
  /\ UNCHANGED <<mainVars, storeVars, histVars>>
  /\ UNCHANGED runVars

----------------------------------------------------------------------------
(* startMfa, startPushMfa, startTotpMfa, lines 236-294 *)

\* startMfa returns (tok, e) to getSessionFromLogin: lines 226-233
MfaReturn(tok, e, out) ==
  IF e # NoErr
    THEN GslReturn("", e, Emit(out, "Error doing MFA!"))
    ELSE GslReturn(tok, NoErr, out)

\* what doMfa may return: a session token, or an error
doMfaResults ==
  { [tok |-> t, err |-> NoErr] : t \in SessionTokens } \cup
  { [tok |-> "", err |-> "doMfa failed"] }

\* the dispatch on the factor kind
StartMfa ==
  /\ pc = "startMfa"
  /\ IF factor.FactorType = "push"
       THEN /\ pc' = "TRYPUSH"
            /\ tries' = 0
            /\ mfa' = [NoMfa EXCEPT !.kind = "push"]
            /\ UNCHANGED <<err, sessionToken, stdout, caller, ores, factor,
                           mfaIdxAnswer, mfaErr>>
       ELSE IF factor.FactorType = "token:software:totp"
         THEN /\ pc' = "TRYMFA"
              /\ tries' = 0
              /\ mfa' = [NoMfa EXCEPT !.kind = "totp"]
              /\ UNCHANGED <<err, sessionToken, stdout, caller, ores, factor,
                             mfaIdxAnswer, mfaErr>>
         ELSE \* neither branch assigns the named results
              /\ mfa' = [NoMfa EXCEPT !.kind = "other", !.done = TRUE]
              /\ MfaReturn("", NoErr, stdout)
  /\ UNCHANGED <<mainVars, storeVars, calls, cancelled, lookup, firstRoleArg, launched>>
  /\ UNCHANGED runVars

\* the push loop with one try too many
PushMayTry_le(t) == t <= 15

\* the guard of the push loop
PushMayTry(t) == t < 15

\* one pass through the label TRYPUSH
PushTry ==
  /\ pc = "TRYPUSH"
  /\ IF PushMayTry(tries)
       THEN \E r \in doMfaResults :
              IF r.err # NoErr
                THEN /\ tries' = tries + 1
                     /\ mfaErr' = r.err
                     /\ stdout' = Emit(stdout, "Push not yet acked, sleeping")
                     /\ mfa' = [mfa EXCEPT !.calls = @ + 1, !.fails = @ + 1,
                                         !.sleeps = @ + 1, !.tok = r.tok]
                     /\ UNCHANGED <<pc, err, sessionToken, caller, ores, factor,
                                    mfaIdxAnswer>>
                ELSE /\ mfa' = [mfa EXCEPT !.calls = @ + 1, !.tok = r.tok,
                                         !.done = TRUE, !.ret = r.tok]
                     /\ MfaReturn(r.tok, NoErr, stdout)
       ELSE /\ mfa' = [mfa EXCEPT !.done = TRUE, !.err = mfaErr]
            /\ MfaReturn("", mfaErr, Emit(stdout, "Error performing MFA auth!"))
  /\ UNCHANGED <<mainVars, storeVars, calls, cancelled, lookup, firstRoleArg, launched>>
  /\ UNCHANGED runVars

\* what readMfaToken may return: a code, or an interrupt
MfaTokenResults ==
  { [code |-> "123456", err |-> NoErr], [code |-> "", err |-> ErrPromptAborted] }

\* the code loop with one try too many
TotpMayTry_three(t) == t < 3

\* the guard of the code loop
TotpMayTry(t) == t < 2

\* the error startTotpMfa returns once its tries are used up: its err
\* variable, which readMfaToken assigned last
TotpExhaustedErr(promptErr, verifyErr) == promptErr

\* one pass through the label TRYMFA
TotpTry ==
  /\ pc = "TRYMFA"
  /\ \E p \in MfaTokenResults :
       LET out == Emit(stdout, "Your account requires MFA; please enter a token.") IN
       IF p.err # NoErr
         THEN /\ cancelled' = TRUE
              /\ mfa' = [mfa EXCEPT !.prompts = @ + 1, !.done = TRUE, !.err = p.err]
              /\ MfaReturn("", p.err, out)
         ELSE IF TotpMayTry(tries)
           THEN \E r \in doMfaResults :
                  IF r.err # NoErr
                    THEN /\ tries' = tries + 1
                         /\ mfaErr' = r.err
                         /\ stdout' = Emit(out, "Invalid MFA code, please try again.")
                         /\ mfa' = [mfa EXCEPT !.prompts = @ + 1, !.calls = @ + 1,
                                               !.fails = @ + 1, !.tok = r.tok]
                         /\ UNCHANGED <<pc, err, sessionToken, caller, ores, factor,
                                        mfaIdxAnswer, cancelled>>
                    ELSE /\ mfa' = [mfa EXCEPT !.prompts = @ + 1, !.calls = @ + 1,
                                               !.tok = r.tok, !.done = TRUE,
                                               !.ret = r.tok]
                         /\ MfaReturn(r.tok, NoErr, out)
                         /\ UNCHANGED cancelled
           ELSE LET e == TotpExhaustedErr(p.err, mfaErr) IN
                /\ mfa' = [mfa EXCEPT !.prompts = @ + 1, !.done = TRUE, !.err = e]
                /\ MfaReturn("", e, Emit(out, "Error performing MFA auth!"))
                /\ UNCHANGED cancelled
  /\ UNCHANGED <<mainVars, storeVars, calls, lookup, firstRoleArg, launched>>
  /\ UNCHANGED runVars

----------------------------------------------------------------------------
(* main, lines 104-190 *)

\* what getSaml may return: an assertion, an empty one, or an error
getSamlResults ==
  { [saml |-> TokenAssertion, err |-> NoErr],
    [saml |-> "", err |-> NoErr],
    [saml |-> None, err |-> "getSaml failed"] }

\* what getSamlSession may return: an assertion, an empty one, or an error
getSamlSessionResults ==
  { [saml |-> CookieAssertion, err |-> NoErr],
    [saml |-> "", err |-> NoErr],
    [saml |-> None, err |-> "getSamlSession failed"] }

\* where main goes after the token exchange succeeded: the first call is
\* followed by the tests of lines 117 and 132, the fallback call by neither
AfterGetSaml(site, s) ==
  IF site = "first" /\ ~Usable(s) THEN "getSamlSession" ELSE "assumeFirstRole"

\* getSaml after a login: lines 109-114 and 141-146
GetSaml ==
  /\ pc = "getSaml"
  /\ \E r \in getSamlResults :
       /\ saml' = r.saml
       /\ err' = r.err
       /\ IF r.err # NoErr
            THEN /\ pc' = "returned"
                 /\ stdout' = Emit(stdout, IF caller = "first"
                                             THEN "Error parsing SAML response"
                                             ELSE "Fatal error getting saml")
            ELSE /\ pc' = AfterGetSaml(caller, r.saml)
                 /\ UNCHANGED stdout
  /\ calls' = Inc("getSaml")
  /\ mfa' = NoMfa
  /\ UNCHANGED <<opts, args, awsProfile, acfg, skipSecondRole, password,
                 mainCreds, mExp, finalCreds, fExp>>
  /\ UNCHANGED <<sessionToken, loginVars, storeVars>>
  /\ UNCHANGED <<cancelled, lookup, firstRoleArg, launched>>
  /\ UNCHANGED runVars

\* the stored-cookie exchange and the test that follows it: lines 117-132
CookieExchange ==
  /\ pc = "getSamlSession"
  /\ \E r \in getSamlSessionResults :
       /\ saml' = r.saml
       /\ err' = r.err
       /\ IF ~Usable(r.saml)
            THEN /\ pc' = "readUserPass"
                 /\ caller' = "fallback"
            ELSE /\ pc' = "assumeFirstRole"
                 /\ UNCHANGED caller
  /\ calls' = Inc("getSamlSession")
  /\ UNCHANGED <<opts, args, awsProfile, acfg, skipSecondRole, password,
                 mainCreds, mExp, finalCreds, fExp>>
  /\ UNCHANGED <<sessionToken, stdout, ores, factor, mfaIdxAnswer, tries, mfaErr>>
  /\ UNCHANGED <<storeVars, cancelled, mfa, lookup, firstRoleArg, launched>>
  /\ UNCHANGED runVars

\* what an AssumeRole call may return, given the keys it can hand out
AssumeResults(keys) ==
  { [creds |-> k, exp |-> e, err |-> NoErr] : k \in keys, e \in Expiries } \cup
  { [creds |-> None, exp |-> 0, err |-> "AssumeRole failed"] }

\* assumeFirstRole with its error not checked
AssumeFirstRole_ignoreErr ==
  /\ pc = "assumeFirstRole"
  /\ firstRoleArg' = saml
  /\ \E r \in AssumeResults(BaseKeys) :
       /\ mainCreds' = r.creds
       /\ mExp' = r.exp
       /\ err' = r.err
       /\ pc' = "secondRole"
       /\ UNCHANGED stdout
  /\ calls' = Inc("assumeFirstRole")
  /\ UNCHANGED <<opts, args, awsProfile, acfg, skipSecondRole, password, saml,
                 finalCreds, fExp>>
  /\ UNCHANGED <<sessionToken, loginVars, storeVars, cancelled, mfa, lookup, launched>>
  /\ UNCHANGED runVars

\* assumeFirstRole: lines 149-154
AssumeFirstRole ==
  /\ pc = "assumeFirstRole"
  /\ firstRoleArg' = saml
  /\ \E r \in AssumeResults(BaseKeys) :
       /\ mainCreds' = r.creds
       /\ mExp' = r.exp
       /\ err' = r.err
       /\ IF r.err # NoErr
            THEN /\ pc' = "returned"
                 /\ stdout' = Emit(stdout, "Error assuming first role!")
            ELSE /\ pc' = "secondRole"
                 /\ UNCHANGED stdout
  /\ calls' = Inc("assumeFirstRole")
  /\ UNCHANGED <<opts, args, awsProfile, acfg, skipSecondRole, password, saml,
                 finalCreds, fExp>>
  /\ UNCHANGED <<sessionToken, loginVars, storeVars, cancelled, mfa, lookup, launched>>
  /\ UNCHANGED runVars

\* the skip branch forgetting to carry the expiry over
SkippedFinal_zeroExp(creds, exp) == [creds |-> creds, exp |-> 0]

\* the final credentials and expiry when the second role is skipped
SkippedFinal(creds, exp) == [creds |-> creds, exp |-> exp]

\* the second hop, or its skip: lines 156-168
SecondRole ==
  /\ pc = "secondRole"
  /\ IF ~skipSecondRole
       THEN \E r \in AssumeResults(DestKeys) :
              /\ finalCreds' = r.creds
              /\ fExp' = r.exp
              /\ err' = r.err
              /\ calls' = Inc("assumeDestinationRole")
              /\ IF r.err # NoErr
                   THEN /\ pc' = "returned"
                        /\ stdout' = Emit(stdout, "Error assuming second role!")
                   ELSE /\ pc' = "persist"
                        /\ UNCHANGED stdout
       ELSE /\ finalCreds' = SkippedFinal(mainCreds, mExp).creds
            /\ fExp' = SkippedFinal(mainCreds, mExp).exp
            /\ pc' = "persist"
            /\ UNCHANGED <<err, stdout, calls>>
  /\ UNCHANGED <<opts, args, awsProfile, acfg, skipSecondRole, password, saml,
                 mainCreds, mExp>>
  /\ UNCHANGED <<sessionToken, loginVars, storeVars>>
  /\ UNCHANGED <<cancelled, mfa, lookup, firstRoleArg, launched>>
  /\ UNCHANGED runVars

\* the override name forgotten
ResolveName_noOverride(override, current) == current

\* the name the credentials are saved under: lines 170-172
ResolveName(override, current) == IF override # "" THEN override ELSE current

\* persistence in which a failed profile-store write ends the run
Persist_awsErrFatal ==
  /\ pc = "persist"
  /\ LET name == ResolveName(opts.ProfileName, awsProfile) IN
     /\ awsProfile' = name
     /\ \E awsErr \in {NoErr, "storeCredsAws failed"}, credErr \in {NoErr, "storeCreds failed"} :
          /\ awsStore' = IF awsErr = NoErr
                           THEN [awsStore EXCEPT ![name] = finalCreds]
                           ELSE awsStore
          /\ credStore' = IF credErr = NoErr /\ awsErr = NoErr
                            THEN [credStore EXCEPT ![name] = [creds |-> finalCreds, exp |-> fExp]]
                            ELSE credStore
          /\ err' = IF awsErr # NoErr THEN awsErr ELSE credErr
          /\ calls' = IF awsErr # NoErr
                         THEN Inc("storeCredsAws")
                         ELSE [calls EXCEPT !["storeCredsAws"] = @ + 1,
                                            !["storeCreds"] = @ + 1]
          /\ pc' = IF awsErr # NoErr THEN "returned" ELSE "launch"
  /\ UNCHANGED <<opts, args, acfg, skipSecondRole, password, saml,
                 mainCreds, mExp, finalCreds, fExp>>
  /\ UNCHANGED <<sessionToken, stdout, loginVars>>
  /\ UNCHANGED <<cancelled, mfa, lookup, firstRoleArg, launched>>
  /\ UNCHANGED runVars

\* storeCredsAws and storeCreds, each of which may fail: lines 170-183
Persist ==
  /\ pc = "persist"
  /\ LET name == ResolveName(opts.ProfileName, awsProfile) IN
     /\ awsProfile' = name
     /\ \E awsErr \in {NoErr, "storeCredsAws failed"}, credErr \in {NoErr, "storeCreds failed"} :
          /\ awsStore' = IF awsErr = NoErr
                           THEN [awsStore EXCEPT ![name] = finalCreds]
                           ELSE awsStore
          /\ credStore' = IF credErr = NoErr
                            THEN [credStore EXCEPT ![name] = [creds |-> finalCreds, exp |-> fExp]]
                            ELSE credStore
          /\ err' = credErr
  /\ calls' = [calls EXCEPT !["storeCredsAws"] = @ + 1, !["storeCreds"] = @ + 1]
  /\ pc' = "launch"
  /\ UNCHANGED <<opts, args, acfg, skipSecondRole, password, saml,
                 mainCreds, mExp, finalCreds, fExp>>
  /\ UNCHANGED <<sessionToken, stdout, loginVars>>
  /\ UNCHANGED <<cancelled, mfa, lookup, firstRoleArg, launched>>
  /\ UNCHANGED runVars

\* prepAndLaunch with the final credentials: lines 185-189
Launch ==
  /\ pc = "launch"
  /\ launched' = [args |-> args, creds |-> finalCreds]
  /\ \E lerr \in {NoErr, "launch failed"} :
       /\ err' = lerr
       /\ stdout' = IF lerr = NoErr THEN stdout
                    ELSE Emit(stdout, "Error launching program: ")
  /\ calls' = Inc("prepAndLaunch")
  /\ pc' = "returned"
  /\ UNCHANGED <<mainVars, sessionToken, loginVars, storeVars>>
  /\ UNCHANGED <<cancelled, mfa, lookup, firstRoleArg>>
  /\ UNCHANGED runVars

Next ==
  \/ Start
  \/ ReadAwsProfile
  \/ LoadCreds
  \/ GetKeychain
  \/ GetPassword
  \/ ReadUserPass
  \/ Login
  \/ SelectFactor
  \/ SelectIndex
  \/ StartMfa
  \/ PushTry
  \/ TotpTry
  \/ GetSaml
  \/ CookieExchange
  \/ AssumeFirstRole
  \/ SecondRole
  \/ Persist
  \/ Launch

Spec == Init /\ [][Next]_vars
----------------------------------------------------------------------------
(* Two runs in a row *)

\* the first of the two runs starts with nothing cached
InitRuns ==
  /\ Init
  /\ credStore = [n \in ProfileNames |-> NoRecord]

\* After a run that launched and wrote both stores, main is invoked again
\* with the same target and override name and without force-refresh. Only
\* the two stores outlive the process; the credentials have not expired.
NextRun ==
  /\ run = 1
  /\ pc = "returned"
  /\ calls["storeCreds"] = 1 /\ calls["prepAndLaunch"] = 1
  /\ finalCreds \in BaseKeys \cup DestKeys
  /\ awsStore[awsProfile] = finalCreds
  /\ credStore[awsProfile] = [creds |-> finalCreds, exp |-> fExp]
  /\ fExp > Now
  /\ run' = 2
  /\ prev' = [name |-> awsProfile, lookup |-> lookup]
  /\ opts' = [opts EXCEPT !.ForceNewCredentials = FALSE]
  /\ pc' = "start"
  /\ args' = << >>
  /\ awsProfile' = ""
  /\ acfg' = None
  /\ skipSecondRole' = FALSE
  /\ err' = NoErr
  /\ password' = ""
  /\ sessionToken' = ""
  /\ saml' = None
  /\ mainCreds' = None /\ mExp' = 0 /\ finalCreds' = None /\ fExp' = 0
  /\ caller' = None
  /\ ores' = NoResponse
  /\ factor' = NoFactor
  /\ mfaIdxAnswer' = << >>
  /\ tries' = 0
  /\ mfaErr' = NoErr
  /\ stdout' = {}
  /\ calls' = [o \in Ops |-> 0]
  /\ cancelled' = FALSE
  /\ mfa' = NoMfa
  /\ lookup' = None
  /\ firstRoleArg' = "uncalled"
  /\ launched' = NoLaunch
  /\ UNCHANGED storeVars

NextRuns ==
  \/ Next
  \/ NextRun

SpecRuns == InitRuns /\ [][NextRuns]_vars

----------------------------------------------------------------------------
(* Properties *)

\* keys handed out by STS in this run, as opposed to keys cached earlier
FreshKeys == BaseKeys \cup DestKeys

\* the two persistence calls have been made
Persisted == calls["storeCredsAws"] > 0 /\ calls["storeCreds"] > 0

\* names other than n hold nothing written by this run
OnlyWrittenUnder(n) ==
  \A m \in ProfileNames \ {n} :
    awsStore[m] = None /\ credStore[m].creds \notin FreshKeys

\* C1: when doMfa rejects the code on both attempts, startTotpMfa returns a
\* non-nil error and no session token, getSessionFromLogin fails and the run
\* returns without reaching the federation exchange.
C1_TotpTwoRejectionsFail ==
  (mfa.kind = "totp" /\ mfa.done /\ mfa.fails = 2) =>
    (mfa.err # NoErr /\ mfa.ret = "" /\ pc = "returned")

\* C2: startPushMfa calls doMfa at most 15 times; when all 15 calls fail it
\* returns a non-nil error and no token without a 16th call; when call k
\* succeeds it returns that call's token after exactly k calls.
C2_PushAtMostFifteen ==
  mfa.kind = "push" =>
    /\ mfa.calls <= 15
    /\ mfa.fails <= mfa.calls
    /\ ~mfa.done => mfa.fails = mfa.calls
    /\ (mfa.done /\ mfa.fails = mfa.calls) =>
         (mfa.calls = 15 /\ mfa.err # NoErr /\ mfa.ret = "" /\ pc = "returned")
    /\ (mfa.done /\ mfa.fails < mfa.calls) =>
         /\ mfa.calls = mfa.fails + 1
         /\ mfa.err = NoErr
         /\ mfa.tok \in SessionTokens
         /\ mfa.ret = mfa.tok
         /\ sessionToken = mfa.tok

\* C2 witness: fifteen polls failed and startPushMfa returned the timeout
C2_Witness ==
  /\ mfa.kind = "push" /\ mfa.done
  /\ mfa.calls = 15 /\ mfa.fails = 15
  /\ mfa.err # NoErr

\* C3: with two or more factors, an index outside 0..N-1 makes
\* selectTokenFactor return the wrong-mfa-factor error; the factor list is
\* never indexed outside its bounds and the process does not crash.
C3_OutOfRangeIsError ==
  [][ (pc = "selectIndex" /\ ~InRange(Atoi(mfaIdxAnswer), Len(ores.Factors)))
        => (pc' = "returned" /\ err' = wrongMfaError) ]_vars

\* C4: startMfa on a factor that is neither push nor TOTP returns a non-nil
\* error without any verification call, and the run returns as failed.
C4_UnsupportedFactorFails ==
  (mfa.kind = "other" /\ mfa.done) =>
    (mfa.calls = 0 /\ mfa.err # NoErr /\ pc = "returned")

\* C5 as stated: without an override name, the credentials are persisted
\* under the target name requested on the command line, also when the
\* profile was not found and the second role is skipped.
C5_PersistUnderRequested ==
  (opts.ProfileName = "" /\ Persisted) =>
    (awsProfile = Target /\ OnlyWrittenUnder(Target))

\* C5 amended: without an override name, the credentials are persisted under
\* the requested target name unless the profile lookup reported not-found,
\* and under BASE_PROFILE_CREDS when it did.
C5_PersistUnderEffective ==
  (opts.ProfileName = "" /\ Persisted) =>
    LET name == IF lookup = awsProfileNotFound THEN BASE_PROFILE_CREDS ELSE Target
    IN  awsProfile = name /\ OnlyWrittenUnder(name)

\* C5 witness: not-found, no override, both stores written under the base name
C5_Witness ==
  /\ opts.ProfileName = "" /\ Persisted
  /\ lookup = awsProfileNotFound
  /\ awsStore[BASE_PROFILE_CREDS] \in BaseKeys
  /\ credStore[BASE_PROFILE_CREDS].creds \in BaseKeys

\* C6: when the profile lookup reports not-found, assumeDestinationRole is
\* never called, and the credentials and expiry persisted and launched are
\* exactly those assumeFirstRole returned.
C6_SkipUsesBaseCreds ==
  lookup = awsProfileNotFound =>
    /\ calls["assumeDestinationRole"] = 0
    /\ pc \in {"persist", "launch"} => (finalCreds = mainCreds /\ fExp = mExp)
    /\ \A n \in ProfileNames :
         /\ awsStore[n] # None => awsStore[n] = mainCreds
         /\ credStore[n].creds \in FreshKeys =>
              credStore[n] = [creds |-> mainCreds, exp |-> mExp]
    /\ (launched # NoLaunch /\ calls["assumeFirstRole"] > 0) =>
         launched.creds = mainCreds

\* C6 witness: a skipped run that stored and launched the base credentials
C6_Witness ==
  /\ lookup = awsProfileNotFound
  /\ pc = "returned"
  /\ mainCreds \in BaseKeys /\ mExp \in Expiries
  /\ launched.creds = mainCreds
  /\ credStore[awsProfile] = [creds |-> mainCreds, exp |-> mExp]
  /\ awsStore[awsProfile] = mainCreds

\* nothing of the pipeline after the cache has run
NothingAfterCache ==
  /\ \A o \in Ops \ {"loadCreds", "prepAndLaunch"} : calls[o] = 0
  /\ mfa = NoMfa
  /\ ~cancelled
  /\ \A n \in ProfileNames : awsStore[n] = None /\ credStore[n].creds \notin FreshKeys

\* C7: the cache is consulted before any other pipeline step; without
\* force-refresh a hit launches the cached credentials and nothing else of the
\* pipeline runs; with force-refresh the cache is never consulted and the
\* run goes on to the keychain and the session/login path.
C7_CacheFirst ==
  /\ pc = "loadCreds" => (NothingAfterCache /\ calls["loadCreds"] = 0
                          /\ calls["prepAndLaunch"] = 0)
  /\ opts.ForceNewCredentials =>
       /\ calls["loadCreds"] = 0
       /\ (lookup # None /\ pc # "loadCreds") =>
            (pc = "keychain" \/ calls["GetKeychain"] = 1)
       /\ launched # NoLaunch => calls["assumeFirstRole"] = 1
  /\ (~opts.ForceNewCredentials /\ lookup # None /\ pc # "loadCreds") =>
       calls["loadCreds"] = 1
  /\ (calls["loadCreds"] = 1 /\ calls["storeCreds"] = 0) =>
       IF loadCreds(awsProfile).err = NoErr
         THEN /\ pc = "returned"
              /\ NothingAfterCache
              /\ launched = [args |-> args, creds |-> loadCreds(awsProfile).creds]
         ELSE launched = NoLaunch

\* C7 witness: a hit launched the cached credentials
C7_Witness ==
  /\ ~opts.ForceNewCredentials
  /\ calls["loadCreds"] = 1
  /\ pc = "returned"
  /\ launched.creds = CachedKey
  /\ calls["GetKeychain"] = 0

\* C8: once a prompt has been interrupted, no factor is selected and no MFA
\* verification, federation exchange, role assumption or persistence follows.
C8_CancelAborts ==
  [][ cancelled =>
        /\ factor' \in {factor, NoFactor}
        /\ mfa'.calls = mfa.calls
        /\ \A o \in {"login", "getSaml", "getSamlSession", "assumeFirstRole",
                     "assumeDestinationRole", "storeCredsAws", "storeCreds",
                     "prepAndLaunch"} : calls'[o] = calls[o] ]_vars

\* errors that end the run as failed
FatalErrors ==
  { "Must supply a username and password", "login failed",
    "MFA required to use this tool", "MFA factors not present in response",
    wrongMfaError, "doMfa failed", "getSaml failed", "AssumeRole failed" }

\* C9: a run that ends in a fatal error has shown the user at least one
\* message before it returns, on every path.
C9_FatalErrorsReported ==
  (pc = "returned" /\ err \in FatalErrors) => stdout # {}

\* C10: whenever assumeFirstRole is called, the assertion it is given is
\* non-nil and non-empty and came from getSaml or from getSamlSession.
C10_UsableAssertion ==
  firstRoleArg # "uncalled" =>
    (Usable(firstRoleArg) /\ firstRoleArg \in {TokenAssertion, CookieAssertion})

\* this run wrote nothing into either store
NothingWritten ==
  /\ calls["storeCredsAws"] = 0 /\ calls["storeCreds"] = 0
  /\ \A n \in ProfileNames : awsStore[n] = None /\ credStore[n].creds \notin FreshKeys

\* the run has ended without launching anything
EndedWithoutLaunch == pc \in {"returned", "panic"} /\ launched = NoLaunch

\* C11: storeCredsAws and storeCreds are called only after an exchange has
\* returned an assertion without error and the base role, and the
\* destination role unless skipped, have been assumed; a run that ends in
\* failure has written nothing.
C11_PersistOnlyAfterSuccess ==
  /\ (calls["storeCredsAws"] > 0 \/ calls["storeCreds"] > 0) =>
       /\ calls["getSaml"] + calls["getSamlSession"] >= 1
       /\ firstRoleArg \notin {"uncalled", None}
       /\ calls["assumeFirstRole"] = 1
       /\ mainCreds \in BaseKeys /\ mExp \in Expiries
       /\ IF skipSecondRole
            THEN calls["assumeDestinationRole"] = 0 /\ finalCreds = mainCreds
            ELSE calls["assumeDestinationRole"] = 1 /\ finalCreds \in DestKeys
       /\ fExp \in Expiries
  /\ EndedWithoutLaunch => NothingWritten
  /\ \A n \in ProfileNames :
       /\ awsStore[n] \in {None, finalCreds}
       /\ credStore[n].creds \in FreshKeys =>
            credStore[n] = [creds |-> finalCreds, exp |-> fExp]

\* C11 witness: the second role assumption failed and nothing was written
C11_Witness ==
  /\ pc = "returned"
  /\ calls["assumeDestinationRole"] = 1
  /\ err = "AssumeRole failed"
  /\ mainCreds \in BaseKeys
  /\ NothingWritten

\* C12: once the final credentials are derived, prepAndLaunch is called with
\* them whether or not the two writes succeed, and a failed profile-store
\* write does not keep the cache write from being attempted.
C12_PersistenceNotFatal ==
  /\ calls["storeCredsAws"] = calls["storeCreds"]
  /\ Persisted => pc \in {"launch", "returned"}
  /\ (Persisted /\ pc = "returned") =>
       (calls["prepAndLaunch"] = 1 /\ launched = [args |-> args, creds |-> finalCreds])

\* C12 witness: both writes failed and the final credentials were launched
C12_Witness ==
  /\ pc = "returned" /\ Persisted
  /\ finalCreds \in FreshKeys
  /\ awsStore[awsProfile] = None
  /\ credStore[awsProfile].creds \notin FreshKeys
  /\ launched.creds = finalCreds

\* C13: both writes go under one resolved name, the override name when one
\* is given and otherwise the name the run looked up.
C13_SameResolvedName ==
  Persisted =>
    LET effective == IF lookup = awsProfileNotFound THEN BASE_PROFILE_CREDS
                     ELSE Target
        name == IF opts.ProfileName # "" THEN opts.ProfileName ELSE effective
    IN  /\ awsProfile = name
        /\ OnlyWrittenUnder(name)
        /\ awsStore[name] \in {None, finalCreds}

\* C13 witness: an override name is given and both stores hold the final
\* credentials under it
C13_Witness ==
  /\ opts.ProfileName = "ovr" /\ Persisted
  /\ awsStore["ovr"] = finalCreds
  /\ credStore["ovr"] = [creds |-> finalCreds, exp |-> fExp]
  /\ finalCreds \in FreshKeys

\* C14: getSamlSession is attempted only when the secret store returned a
\* non-empty session cookie.
C14_CookieExchangeNeedsCookie ==
  calls["getSamlSession"] > 0 => password # ""

\* the positions inside getSessionFromLogin
LoginPositions ==
  {"readUserPass", "login", "selectTokenFactor", "selectIndex", "startMfa",
   "TRYPUSH", "TRYMFA"}

\* C15: with a non-empty stored cookie, the cookie exchange comes before any
\* username/password prompt; a login happens only after that exchange
\* failed or returned an empty assertion; when it returns a non-empty
\* assertion the user is never prompted to log in.
C15_CookieBeforeLogin ==
  password # "" =>
    /\ (pc \in LoginPositions \/ calls["readUserPass"] > 0 \/ calls["getSaml"] > 0) =>
         (calls["getSamlSession"] = 1 /\ caller = "fallback")
    /\ pc \in LoginPositions => ~Usable(saml)
    /\ saml = CookieAssertion =>
         /\ calls["readUserPass"] = 0 /\ calls["login"] = 0
         /\ calls["getSaml"] = 0 /\ mfa = NoMfa
    /\ calls["readUserPass"] <= 1

\* C15 witness: the cookie exchange failed and the login that followed it
\* reached the token exchange
C15_Witness ==
  /\ password # ""
  /\ calls["getSamlSession"] = 1
  /\ calls["readUserPass"] = 1
  /\ calls["getSaml"] = 1
  /\ saml = TokenAssertion

\* C16: with exactly one factor selectTokenFactor asks nothing and returns
\* that factor; with no factor it returns an error and no factor.
C16_SingleFactorNoPrompt ==
  [][ pc = "selectTokenFactor" =>
        /\ Len(ores.Factors) = 1 =>
             /\ calls'["selectPrompt"] = calls["selectPrompt"]
             /\ factor' = ores.Factors[1]
             /\ pc' = "startMfa"
             /\ cancelled' = cancelled
        /\ Len(ores.Factors) = 0 =>
             /\ calls'["selectPrompt"] = calls["selectPrompt"]
             /\ factor' = NoFactor
             /\ pc' = "returned"
             /\ err' = "MFA factors not present in response" ]_vars

\* C16 witness: the only factor of the response was selected without a prompt
C16_Witness ==
  /\ pc = "startMfa"
  /\ Len(ores.Factors) = 1
  /\ factor = ores.Factors[1]
  /\ calls["selectPrompt"] = 0

\* C17: startTotpMfa calls doMfa at most twice, and when the first call
\* fails and the second succeeds it returns the second call's token and no
\* error.
C17_TotpAtMostTwo ==
  mfa.kind = "totp" =>
    /\ mfa.calls <= 2
    /\ (mfa.done /\ mfa.calls = 2 /\ mfa.fails = 1) =>
         /\ mfa.err = NoErr
         /\ mfa.tok \in SessionTokens
         /\ mfa.ret = mfa.tok
         /\ sessionToken = mfa.tok
         /\ pc = "getSaml"

\* C17 witness: a wrong code, then a right one
C17_Witness ==
  /\ mfa.kind = "totp" /\ mfa.done
  /\ mfa.calls = 2 /\ mfa.fails = 1
  /\ mfa.ret \in SessionTokens

\* C18: the login sequence (readUserPass and login) runs at most once in a
\* run.
C18_LoginAtMostOnce ==
  calls["readUserPass"] <= 1 /\ calls["login"] <= 1

\* C19: absent an interrupt, startTotpMfa verifies every code it asks for:
\* at most two prompts, and as many prompts as doMfa calls.
C19_PromptsEqualVerifications ==
  (mfa.kind = "totp" /\ mfa.err # ErrPromptAborted) =>
    (mfa.prompts <= 2 /\ mfa.prompts = mfa.calls)

\* C20: after a run has written the cache, the next run with the same
\* target and override name, without force-refresh and before the expiry,
\* looks the cache up under the name that was written, gets a hit, launches
\* the cached credentials and authenticates nothing.
C20_NextRunHits ==
  (run = 2 /\ lookup # None /\ lookup = prev.lookup /\ pc # "loadCreds") =>
    /\ pc = "returned"
    /\ awsProfile = prev.name
    /\ calls["loadCreds"] = 1
    /\ launched = [args |-> args, creds |-> credStore[prev.name].creds]
    /\ \A o \in Ops \ {"loadCreds", "prepAndLaunch"} : calls[o] = 0
    /\ mfa = NoMfa

====
